---- MODULE Spec2Model ----
(***************************************************************************)
(* Model of the Knative Lambda migrator: the run of main() over one parsed *)
(* Go file (entry-point locator, signature classifiers, import rewriter,   *)
(* adapter synthesizer, splice), followed by the execution of the Handle   *)
(* method the tool has generated.                                          *)
(***************************************************************************)
EXTENDS Integers, Sequences, FiniteSets, TLC

VARIABLES
    content,      \* the file as parsed from the input bytes (file.Decls at parse time)
    pkgInfo,      \* what packages.Load answers for the directory of the input file
    file,         \* file.Decls, the declaration list of the *ast.File, mutated in place
    pc,           \* position of main()
    handlerRef,   \* *HandlerReference returned by findLambdaHandler
    handlerSig,   \* *HandlerSignature returned by a classifier
    aliases,      \* contextAlias, httpAlias, ioAlias returned by addRequiredImports
    fatal,        \* the message main() died with ("" while it lives)
    run,          \* how many times the tool has been started on the input
    firstOutput,  \* file.Decls printed by the first run
    hpc,          \* position inside the generated Handle method (0: not called)
    herr,         \* the error value the migrated handler returned ("unset", "nil", "err")
    events        \* observable effects of one Handle call, in order

vars == <<content, pkgInfo, file, pc, handlerRef, handlerSig, aliases, fatal,
          run, firstOutput, hpc, herr, events>>

(***************************************************************************)
(* Bounds of the model.                                                    *)
(***************************************************************************)
MaxImportDecls == 3   \* import declarations in a generated import layout
MaxStmts == 2         \* statements in a generated body of main
MaxRuns == 2          \* runs of the tool on the same input

(***************************************************************************)
(* strings                                                                 *)
(***************************************************************************)
\* strings.Contains
Contains(s, sub) ==
    \E i \in 1..(Len(s) - Len(sub) + 1) : SubSeq(s, i, i + Len(sub) - 1) = sub

\* strings.Index: 0-based index of the first occurrence, -1 when absent
Index(s, sub) ==
    IF Contains(s, sub)
    THEN (CHOOSE i \in 1..(Len(s) - Len(sub) + 1) :
             /\ SubSeq(s, i, i + Len(sub) - 1) = sub
             /\ \A j \in 1..(i - 1) : SubSeq(s, j, j + Len(sub) - 1) # sub) - 1
    ELSE -1

RECURSIVE TrimLeft(_, _)
TrimLeft(s, c) ==
    IF Len(s) > 0 /\ SubSeq(s, 1, 1) = c THEN TrimLeft(SubSeq(s, 2, Len(s)), c) ELSE s

RECURSIVE TrimRight(_, _)
TrimRight(s, c) ==
    IF Len(s) > 0 /\ SubSeq(s, Len(s), Len(s)) = c
    THEN TrimRight(SubSeq(s, 1, Len(s) - 1), c) ELSE s

\* strings.Trim with a one-character cutset
Trim(s, c) == TrimRight(TrimLeft(s, c), c)

Quote(path) == "\"" \o path \o "\""

(***************************************************************************)
(* go/ast nodes                                                            *)
(***************************************************************************)
\* type expressions
Ident(n) == [k |-> "Ident", x |-> "", name |-> n]
SelectorExpr(x, sel) == [k |-> "SelectorExpr", x |-> x, name |-> sel]
ArrayType(elt) == [k |-> "ArrayType", x |-> "", name |-> elt]
StarExpr(elt) == [k |-> "StarExpr", x |-> "", name |-> elt]
MapType(elt) == [k |-> "MapType", x |-> "", name |-> elt]

\* one entry of a FieldList: `a, b T` is ONE field with two names
Field(n, t) == [names |-> n, type |-> t]

\* import spec: Path.Value keeps its quotes, Name is "" when there is no alias
ImportSpec(alias, path) == [Name |-> alias, Path |-> Quote(path)]

\* declarations
ImportDecl(specs) == [k |-> "GenDecl", Tok |-> "import", Specs |-> specs, Name |-> ""]
TypeDecl(n) == [k |-> "GenDecl", Tok |-> "type", Specs |-> <<>>, Name |-> n]
FuncDecl(n, recv, params, results, hasBody, body) ==
    [k |-> "FuncDecl", Name |-> n, Recv |-> recv, Params |-> params,
     Results |-> results, HasBody |-> hasBody, Body |-> body]

IsImport(d) == d.k = "GenDecl" /\ d.Tok = "import"
IsFunc(d) == d.k = "FuncDecl"

(***************************************************************************)
(* HandlerSignature and the local (syntactic) classifier                   *)
(***************************************************************************)
HandlerSignature(c, i, o, e) ==
    [HasContext |-> c, HasInput |-> i, HasOutput |-> o, HasError |-> e]

NoSig == HandlerSignature(FALSE, FALSE, FALSE, FALSE)

\* mutant of astSignature: a single result that is not an error counts as
\* the output
astSignatureOutputOnly(fn) ==
    LET numParams == Len(fn.Params)
        first == fn.Params[1].type
        isSel == numParams >= 1 /\ first.k = "SelectorExpr"
        isCtx == isSel /\ first.x = "context" /\ first.name = "Context"
        numResults == Len(fn.Results)
        oneErr == /\ numResults = 1
                  /\ fn.Results[1].type.k = "Ident"
                  /\ fn.Results[1].type.name = "error"
    IN  HandlerSignature(
            isCtx,
            numParams >= 1 /\ ((isCtx /\ numParams = 2) \/ (~isSel /\ numParams = 1)),
            numResults = 2 \/ (numResults = 1 /\ ~oneErr),
            oneErr \/ numResults = 2)

\* the body of the ast.Inspect callback for one matching *ast.FuncDecl
astSignature(fn) ==
    LET numParams == Len(fn.Params)
        first == fn.Params[1].type
        isSel == numParams >= 1 /\ first.k = "SelectorExpr"
        isCtx == isSel /\ first.x = "context" /\ first.name = "Context"
        numResults == Len(fn.Results)
        oneErr == /\ numResults = 1
                  /\ fn.Results[1].type.k = "Ident"
                  /\ fn.Results[1].type.name = "error"
    IN  HandlerSignature(
            isCtx,
            numParams >= 1 /\ ((isCtx /\ numParams = 2) \/ (~isSel /\ numParams = 1)),
            numResults = 2,
            oneErr \/ numResults = 2)

\* indexes of the FuncDecls of decls named handlerName (methods included)
funcsNamed(decls, handlerName) ==
    {i \in 1..Len(decls) : IsFunc(decls[i]) /\ decls[i].Name = handlerName}

Max(S) == CHOOSE m \in S : \A n \in S : n <= m
Min(S) == CHOOSE m \in S : \A n \in S : m <= n

\* ast.Inspect does not stop at the first match: `return false` only skips
\* the children, and sig is overwritten by every later match
analyzeHandlerSignature(decls, handlerName) ==
    LET m == funcsNamed(decls, handlerName)
    IN  IF m = {}
        THEN [ok |-> FALSE, sig |-> NoSig]
        ELSE [ok |-> TRUE, sig |-> astSignature(decls[Max(m)])]

(***************************************************************************)
(* go/types: what the type loader resolves the declarations to             *)
(***************************************************************************)
Named(pkg, n) == [k |-> "Named", pkg |-> pkg, name |-> n]   \* pkg "" : Obj().Pkg() == nil
Basic(n) == [k |-> "Basic", pkg |-> "", name |-> n]
Slice(elt) == [k |-> "Slice", pkg |-> "", name |-> elt]
Pointer(elt) == [k |-> "Pointer", pkg |-> "", name |-> elt]
Map(elt) == [k |-> "Map", pkg |-> "", name |-> elt]

BasicNames == {"string", "int", "byte"}

\* the last element of an import path, the default package name
RECURSIVE Base(_)
Base(path) ==
    IF Contains(path, "/")
    THEN Base(SubSeq(path, Index(path, "/") + 2, Len(path)))
    ELSE path

\* the name an import spec binds in its file
LocalName(spec) == IF spec.Name # "" THEN spec.Name ELSE Base(Trim(spec.Path, "\""))

\* all import specs of a declaration list, in source order
RECURSIVE AllSpecs(_)
AllSpecs(decls) ==
    IF decls = <<>> THEN <<>>
    ELSE (IF IsImport(Head(decls)) THEN Head(decls).Specs ELSE <<>>) \o AllSpecs(Tail(decls))

\* the import path a package identifier of the file stands for ("" if none)
PathOf(specs, x) ==
    LET m == {i \in 1..Len(specs) : LocalName(specs[i]) = x}
    IN  IF m = {} THEN "" ELSE Trim(specs[Min(m)].Path, "\"")

\* types.Type of a type expression written in a file of package pkgPath
\* whose import specs are specs
TypeOf(e, specs, pkgPath) ==
    CASE e.k = "Ident" ->
            IF e.name \in BasicNames THEN Basic(e.name)
            ELSE IF e.name = "error" THEN Named("", "error")
            ELSE Named(pkgPath, e.name)
      [] e.k = "SelectorExpr" -> Named(PathOf(specs, e.x), e.name)
      [] e.k = "ArrayType" -> Slice(e.name)
      [] e.k = "StarExpr" -> Pointer(e.name)
      [] OTHER -> Map(e.name)

\* types.TypeString with a nil qualifier
TypeString(t) ==
    CASE t.k = "Named" -> IF t.pkg = "" THEN t.name ELSE t.pkg \o "." \o t.name
      [] t.k = "Basic" -> t.name
      [] t.k = "Slice" -> "[]" \o t.name
      [] t.k = "Pointer" -> "*" \o t.name
      [] OTHER -> "map[string]" \o t.name

\* a *types.Tuple has one variable per declared NAME (one for an unnamed field)
RECURSIVE TupleOf(_, _, _)
TupleOf(fields, specs, pkgPath) ==
    IF fields = <<>> THEN <<>>
    ELSE LET f == Head(fields)
             n == IF f.names = 0 THEN 1 ELSE f.names
         IN  [i \in 1..n |-> TypeOf(f.type, specs, pkgPath)]
                 \o TupleOf(Tail(fields), specs, pkgPath)

\* the *types.Func object of a function declaration
FuncObj(fn, specs, pkgPath) ==
    [name |-> fn.Name, pkg |-> pkgPath,
     params |-> TupleOf(fn.Params, specs, pkgPath),
     results |-> TupleOf(fn.Results, specs, pkgPath)]

\* the signature analysis of analyzeHandlerSignatureWithTypes for the object found
typesSignature(obj) ==
    LET n == Len(obj.params)
        first == obj.params[1]
        named == n > 0 /\ first.k = "Named"
        isCtx == named /\ first.pkg # "" /\ first.pkg = "context" /\ first.name = "Context"
        r == Len(obj.results)
    IN  HandlerSignature(
            isCtx,
            n > 0 /\ ((isCtx /\ n = 2) \/ (~named /\ n = 1)),
            r = 2,
            (r = 1 /\ TypeString(obj.results[1]) = "error") \/ r = 2)

\* the objects the two map loops can stop at: a function of that name among
\* Defs, and only if there is none, one among Uses; either map is walked in
\* an unspecified order
\* mutant of handlerObjs: a diagnostic of the loader ends the lookup
handlerObjsStrict(info, handlerName) ==
    LET d == {o \in info.Defs : o.name = handlerName}
        u == {o \in info.Uses : o.name = handlerName}
    IN  IF ~info.HasTypesInfo \/ info.Errors > 0 THEN {} ELSE IF d # {} THEN d ELSE u

handlerObjs(info, handlerName) ==
    LET d == {o \in info.Defs : o.name = handlerName}
        u == {o \in info.Uses : o.name = handlerName}
    IN  IF ~info.HasTypesInfo THEN {} ELSE IF d # {} THEN d ELSE u

(***************************************************************************)
(* Entry-point locator                                                     *)
(***************************************************************************)
CallExpr(fun, args) == [k |-> "CallExpr", Fun |-> fun, Args |-> args]
FuncLit == [k |-> "FuncLit", x |-> "", name |-> ""]
BasicLit(v) == [k |-> "BasicLit", x |-> "", name |-> v]
\* a selector whose X is not an identifier (x = "" : Go identifiers are never empty)
SelectorOn(X, sel) == [k |-> "SelectorExpr", x |-> "", name |-> sel, X |-> X]
ExprStmt(e) == [k |-> "ExprStmt", X |-> e]

HandlerReference(simple, qualified) ==
    [isNil |-> FALSE, SimpleName |-> simple, QualifiedName |-> qualified]
NilRef == [isNil |-> TRUE, SimpleName |-> "", QualifiedName |-> ""]

isLambdaStart(e) ==
    /\ e.k = "CallExpr"
    /\ e.Fun.k = "SelectorExpr"
    /\ e.Fun.x = "lambda"
    /\ e.Fun.name = "Start"

\* the argument forms a HandlerReference is built from
isHandlerArg(a) == a.k = "Ident" \/ (a.k = "SelectorExpr" /\ a.x # "")

refOfArg(a) ==
    IF a.k = "Ident"
    THEN HandlerReference(a.name, a.name)
    ELSE HandlerReference(a.name, a.x \o "." \o a.name)

\* the inner ast.Inspect: depth-first, in source order; `return false` at a
\* start call skips that call's children only, the walk goes on with the
\* following nodes and every later start call assigns handlerRef again
RECURSIVE inspectExpr(_, _)
RECURSIVE inspectList(_, _)
inspectExpr(e, ref) ==
    IF e.k # "CallExpr" THEN ref
    ELSE IF isLambdaStart(e) /\ Len(e.Args) > 0 /\ isHandlerArg(e.Args[1])
    THEN refOfArg(e.Args[1])
    ELSE inspectList(e.Args, ref)

inspectList(es, ref) ==
    IF es = <<>> THEN ref
    ELSE inspectList(Tail(es), inspectExpr(Head(es), ref))

RECURSIVE inspectStmts(_, _)
inspectStmts(stmts, ref) ==
    IF stmts = <<>> THEN ref
    ELSE inspectStmts(Tail(stmts), inspectExpr(Head(stmts).X, ref))

\* the outer ast.Inspect: every FuncDecl named main is searched, in order
RECURSIVE inspectDecls(_, _)
inspectDecls(decls, ref) ==
    IF decls = <<>> THEN ref
    ELSE LET d == Head(decls)
         IN  inspectDecls(Tail(decls),
                 IF IsFunc(d) /\ d.Name = "main" THEN inspectStmts(d.Body, ref) ELSE ref)

findLambdaHandler(decls) ==
    LET mains == funcsNamed(decls, "main")
        ref == inspectDecls(decls, NilRef)
    IN  IF \E i \in mains : ~decls[i].HasBody
        THEN [panic |-> TRUE, err |-> "", ref |-> NilRef]   \* ast.Walk dereferences the nil body
        ELSE IF mains = {}
        THEN [panic |-> FALSE, err |-> "main function not found", ref |-> NilRef]
        ELSE IF ref.isNil
        THEN [panic |-> FALSE, err |-> "lambda.Start() call not found in main function",
              ref |-> NilRef]
        ELSE [panic |-> FALSE, err |-> "", ref |-> ref]

(***************************************************************************)
(* Import rewriter                                                         *)
(***************************************************************************)
LambdaMarker == "aws-lambda-go"

\* the filter loop of removeLambdaImport over the specs of one declaration
RECURSIVE filterSpecs(_)
filterSpecs(specs) ==
    IF specs = <<>> THEN <<>>
    ELSE (IF ~Contains(Trim(Head(specs).Path, "\""), LambdaMarker)
          THEN <<Head(specs)>> ELSE <<>>) \o filterSpecs(Tail(specs))

\* One iteration of `for i, decl := range file.Decls`.  The range expression
\* is evaluated once: the loop runs over the ORIGINAL length and reads the
\* backing array, which `append(file.Decls[:i], file.Decls[i+1:]...)` shifts
\* in place.  st.arr is the backing array (it holds declaration pointers,
\* here the indexes into st.store), st.len is len(file.Decls).
removeStep(st, i) ==
    LET id == st.arr[i]
        d == st.store[id]
        newSpecs == filterSpecs(d.Specs)
        n == Len(st.arr)
    IN  IF ~IsImport(d) THEN st
        ELSE IF Len(newSpecs) = 0
        THEN IF i > st.len
             THEN [st EXCEPT !.panic = TRUE]   \* file.Decls[i+1:] : slice bounds out of range
             ELSE [st EXCEPT !.arr = [j \in 1..n |->
                                         IF j < i THEN st.arr[j]
                                         ELSE IF j < st.len THEN st.arr[j + 1]
                                         ELSE st.arr[j]],
                             !.len = st.len - 1]
        ELSE [st EXCEPT !.store[id].Specs = newSpecs]

RECURSIVE removeLoop(_, _)
removeLoop(st, i) ==
    IF i > Len(st.arr) \/ st.panic THEN st
    ELSE removeLoop(removeStep(st, i), i + 1)

removeLambdaImport(decls) ==
    LET st == removeLoop([arr |-> [j \in 1..Len(decls) |-> j], len |-> Len(decls),
                          store |-> decls, panic |-> FALSE], 1)
    IN  [panic |-> st.panic, Decls |-> [j \in 1..st.len |-> st.store[st.arr[j]]]]

\* the five support modules, with the default alias of each
SupportPaths == {"context", "net/http", "io", "encoding/json", "log"}

defaultAlias(path) ==
    CASE path = "context" -> "context"
      [] path = "net/http" -> "http"
      [] path = "io" -> "io"
      [] path = "encoding/json" -> "json"
      [] OTHER -> "log"

\* mutant of needed: the flags of io and encoding/json are swapped
neededSwapped(path, sig) ==
    CASE path = "io" -> sig.HasOutput
      [] path = "encoding/json" -> sig.HasInput
      [] path = "log" -> sig.HasError
      [] OTHER -> TRUE

needed(path, sig) ==
    CASE path = "io" -> sig.HasInput
      [] path = "encoding/json" -> sig.HasOutput
      [] path = "log" -> sig.HasError
      [] OTHER -> TRUE

\* checkImport over every import spec of the file, for one importInfo
hasImport(decls, path) ==
    LET specs == AllSpecs(decls)
    IN  \E i \in 1..Len(specs) : Trim(specs[i].Path, "\"") = path

aliasOf(decls, path) ==
    LET specs == AllSpecs(decls)
        m == {i \in 1..Len(specs) : Trim(specs[i].Path, "\"") = path /\ specs[i].Name # ""}
    IN  IF m = {} THEN defaultAlias(path) ELSE specs[Max(m)].Name

createImportSpec(path) == [Name |-> "", Path |-> "\"" \o path \o "\""]

\* the orders in which a `range` over the imports map can visit the keys S
MapOrders(S) ==
    {o \in [1..Cardinality(S) -> S] : \A i, j \in DOMAIN o : i # j => o[i] # o[j]}

\* mutant of addRequiredImports: the missing specs go to the last import
\* declaration of the file
addRequiredImportsLastBlock(decls, sig, order) ==
    LET Missing(p) == needed(p, sig) /\ ~hasImport(decls, p)
        Needed(p) == needed(p, sig)
        missingImports == SelectSeq(order, Missing)
        imps == {i \in 1..Len(decls) : IsImport(decls[i])}
        added == [j \in 1..Len(missingImports) |-> createImportSpec(missingImports[j])]
        all == SelectSeq(order, Needed)
        newImport == ImportDecl([j \in 1..Len(all) |-> createImportSpec(all[j])])
        newDecls ==
            IF Len(missingImports) = 0 THEN decls
            ELSE IF imps # {}
            THEN [decls EXCEPT ![Max(imps)].Specs = @ \o added]
            ELSE <<newImport>> \o decls
    IN  [Decls |-> newDecls,
         contextAlias |-> aliasOf(decls, "context"),
         httpAlias |-> aliasOf(decls, "net/http"),
         ioAlias |-> aliasOf(decls, "io")]

\* addRequiredImports; order is the order in which the map is ranged over by
\* the loop that decides the order of the added specs (the keys that are not
\* needed may be left out of it: both loops skip them)
addRequiredImports(decls, sig, order) ==
    LET Missing(p) == needed(p, sig) /\ ~hasImport(decls, p)
        Needed(p) == needed(p, sig)
        missingImports == SelectSeq(order, Missing)
        imps == {i \in 1..Len(decls) : IsImport(decls[i])}
        added == [j \in 1..Len(missingImports) |-> createImportSpec(missingImports[j])]
        all == SelectSeq(order, Needed)
        newImport == ImportDecl([j \in 1..Len(all) |-> createImportSpec(all[j])])
        newDecls ==
            IF Len(missingImports) = 0 THEN decls
            ELSE IF imps # {}
            THEN [decls EXCEPT ![Min(imps)].Specs = @ \o added]
            ELSE <<newImport>> \o decls
    IN  [Decls |-> newDecls,
         contextAlias |-> aliasOf(decls, "context"),
         httpAlias |-> aliasOf(decls, "net/http"),
         ioAlias |-> aliasOf(decls, "io")]

(***************************************************************************)
(* Adapter synthesizer                                                     *)
(***************************************************************************)
AssignStmt(lhs, rhs) == [k |-> "AssignStmt", Lhs |-> lhs, Tok |-> ":=", X |-> rhs]
ReturnStmt == [k |-> "ReturnStmt"]
IfStmt(x, op, y, body) == [k |-> "IfStmt", Cond |-> <<x, op, y>>, Body |-> body]

createHandlerStruct == TypeDecl("Handler")

createNewFunc ==
    FuncDecl("New", FALSE, <<>>, <<Field(0, StarExpr("Handler"))>>, TRUE, <<ReturnStmt>>)

\* the callee: a selector when the name has a ".", the bare identifier otherwise
handlerFuncExpr(handlerFuncName) ==
    LET idx == Index(handlerFuncName, ".")
    IN  IF idx # -1
        THEN SelectorExpr(SubSeq(handlerFuncName, 1, idx),
                          SubSeq(handlerFuncName, idx + 2, Len(handlerFuncName)))
        ELSE Ident(handlerFuncName)

\* mutant of handlerArgs: the input buffer is passed before the context
handlerArgsBodyFirst(sig) ==
    (IF sig.HasInput THEN <<Ident("body")>> ELSE <<>>)
        \o (IF sig.HasContext THEN <<Ident("ctx")>> ELSE <<>>)

handlerArgs(sig) ==
    (IF sig.HasContext THEN <<Ident("ctx")>> ELSE <<>>)
        \o (IF sig.HasInput THEN <<Ident("body")>> ELSE <<>>)

\* body, _ := io.ReadAll(r.Body)
readBodyStmt(ioAlias) ==
    AssignStmt(<<"body", "_">>,
               CallExpr(SelectorExpr(ioAlias, "ReadAll"), <<SelectorExpr("r", "Body")>>))

\* the call of the handler, bound according to (HasOutput, HasError)
handlerCallStmt(handlerFuncName, sig) ==
    LET call == CallExpr(handlerFuncExpr(handlerFuncName), handlerArgs(sig))
    IN  IF sig.HasOutput /\ sig.HasError THEN AssignStmt(<<"result", "err">>, call)
        ELSE IF sig.HasError THEN AssignStmt(<<"err">>, call)
        ELSE IF sig.HasOutput THEN AssignStmt(<<"result">>, call)
        ELSE ExprStmt(call)

\* mutant of errorGuardStmt: the guard does not return
errorGuardNoReturn ==
    IfStmt("err", "!=", "nil",
           <<ExprStmt(CallExpr(SelectorExpr("log", "Printf"),
                               <<BasicLit("\"Handler error: %v\""), Ident("err")>>)),
             ExprStmt(CallExpr(SelectorExpr("w", "WriteHeader"), <<BasicLit("500")>>))>>)

\* if err != nil { log.Printf("Handler error: %v", err); w.WriteHeader(500); return }
errorGuardStmt ==
    IfStmt("err", "!=", "nil",
           <<ExprStmt(CallExpr(SelectorExpr("log", "Printf"),
                               <<BasicLit("\"Handler error: %v\""), Ident("err")>>)),
             ExprStmt(CallExpr(SelectorExpr("w", "WriteHeader"), <<BasicLit("500")>>)),
             ReturnStmt>>)

\* json.NewEncoder(w).Encode(result)
encodeStmt ==
    ExprStmt(CallExpr(SelectorOn(CallExpr(SelectorExpr("json", "NewEncoder"), <<Ident("w")>>),
                                 "Encode"),
                      <<Ident("result")>>))

handleBody(handlerFuncName, ioAlias, sig) ==
    (IF sig.HasInput THEN <<readBodyStmt(ioAlias)>> ELSE <<>>)
        \o <<handlerCallStmt(handlerFuncName, sig)>>
        \o (IF sig.HasError THEN <<errorGuardStmt>> ELSE <<>>)
        \o (IF sig.HasOutput THEN <<encodeStmt>> ELSE <<>>)

createHandleMethod(handlerFuncName, contextAlias, httpAlias, ioAlias, sig) ==
    FuncDecl("Handle", TRUE,
             <<Field(1, SelectorExpr(contextAlias, "Context")),
               Field(1, SelectorExpr(httpAlias, "ResponseWriter")),
               Field(1, [k |-> "StarExpr", x |-> httpAlias, name |-> "Request"])>>,
             <<>>, TRUE,
             handleBody(handlerFuncName, ioAlias, sig))

(***************************************************************************)
(* Transform orchestrator: the loop of transformAST after import rewriting *)
(***************************************************************************)
\* mutant of spliceMain: the tail is taken from file.Decls[i:], main included
spliceMainKeepsMain(decls, handlerFuncName, al, sig) ==
    LET m == funcsNamed(decls, "main")
        i == Min(m)
    IN  IF m = {} THEN decls
        ELSE SubSeq(decls, 1, i - 1)
                 \o <<createHandlerStruct,
                      createNewFunc,
                      createHandleMethod(handlerFuncName, al.contextAlias, al.httpAlias,
                                         al.ioAlias, sig)>>
                 \o SubSeq(decls, i, Len(decls))

\* the first FuncDecl named main is replaced by the three new declarations;
\* when there is none the loop ends without a change and without an error
spliceMain(decls, handlerFuncName, al, sig) ==
    LET m == funcsNamed(decls, "main")
        i == Min(m)
    IN  IF m = {} THEN decls
        ELSE SubSeq(decls, 1, i - 1)
                 \o <<createHandlerStruct,
                      createNewFunc,
                      createHandleMethod(handlerFuncName, al.contextAlias, al.httpAlias,
                                         al.ioAlias, sig)>>
                 \o SubSeq(decls, i + 1, Len(decls))

(***************************************************************************)
(* main(): one run of the tool                                             *)
(***************************************************************************)
NoAliases == [contextAlias |-> "", httpAlias |-> "", ioAlias |-> ""]

\* mutant of Fatalf: the message is logged and main() goes on
FatalfGoesOn(msg) == pc' = "transform" /\ fatal' = msg

\* log.Fatalf
Fatalf(msg) == pc' = "fatal" /\ fatal' = msg

\* handlerRef, err := findLambdaHandler(file)
FindLambdaHandler ==
    /\ pc = "find"
    /\ LET r == findLambdaHandler(file)
       IN  IF r.panic
           THEN pc' = "panic" /\ UNCHANGED <<fatal, handlerRef>>
           ELSE IF r.err # ""
           THEN Fatalf("Failed to find lambda handler: " \o r.err) /\ UNCHANGED handlerRef
           ELSE pc' = "analyze" /\ handlerRef' = r.ref /\ UNCHANGED fatal
    /\ UNCHANGED <<content, pkgInfo, file, handlerSig, aliases, run, firstOutput,
                   hpc, herr, events>>

\* handlerSig, err := analyzeHandlerSignature(file, handlerRef.SimpleName)
AnalyzeHandlerSignature ==
    /\ pc = "analyze"
    /\ LET r == analyzeHandlerSignature(file, handlerRef.SimpleName)
       IN  IF r.ok
           THEN pc' = "transform" /\ handlerSig' = r.sig
           ELSE pc' = "types" /\ UNCHANGED handlerSig
    /\ UNCHANGED <<content, pkgInfo, file, handlerRef, aliases, fatal, run, firstOutput,
                   hpc, herr, events>>

\* handlerSig, err = analyzeHandlerSignatureWithTypes(...), an object was found
AnalyzeHandlerSignatureWithTypes ==
    /\ pc = "types"
    /\ pkgInfo.Load = "ok"
    /\ \E obj \in handlerObjs(pkgInfo, handlerRef.SimpleName) :
           handlerSig' = typesSignature(obj)
    /\ pc' = "transform"
    /\ UNCHANGED <<content, pkgInfo, file, handlerRef, aliases, fatal, run, firstOutput,
                   hpc, herr, events>>

\* analyzeHandlerSignatureWithTypes returns an error
AnalyzeWithTypesFails ==
    /\ pc = "types"
    /\ \/ /\ pkgInfo.Load = "error"
          /\ Fatalf("Failed to analyze handler signature: failed to load package")
       \/ /\ pkgInfo.Load = "none"
          /\ Fatalf("Failed to analyze handler signature: no packages found")
       \/ /\ pkgInfo.Load = "ok"
          /\ handlerObjs(pkgInfo, handlerRef.SimpleName) = {}
          /\ Fatalf("Failed to analyze handler signature: handler function "
                        \o handlerRef.SimpleName \o " not found in package or imports")
    /\ UNCHANGED <<content, pkgInfo, file, handlerRef, handlerSig, aliases, run,
                   firstOutput, hpc, herr, events>>

\* transformAST, first call: removeLambdaImport(file)
RemoveLambdaImport ==
    /\ pc = "transform"
    /\ LET r == removeLambdaImport(file)
       IN  /\ file' = r.Decls
           /\ pc' = IF r.panic THEN "panic" ELSE "imports"
    /\ UNCHANGED <<content, pkgInfo, handlerRef, handlerSig, aliases, fatal, run,
                   firstOutput, hpc, herr, events>>

\* transformAST, second call: addRequiredImports(file, handlerSig); of the
\* order in which the map is ranged over, the order of the keys that are
\* needed and not imported is all that the result depends on
AddRequiredImports ==
    /\ pc = "imports"
    /\ \E order \in MapOrders({p \in SupportPaths :
                                  needed(p, handlerSig) /\ ~hasImport(file, p)}) :
           LET r == addRequiredImports(file, handlerSig, order)
           IN  /\ file' = r.Decls
               /\ aliases' = [contextAlias |-> r.contextAlias, httpAlias |-> r.httpAlias,
                              ioAlias |-> r.ioAlias]
    /\ pc' = "splice"
    /\ UNCHANGED <<content, pkgInfo, handlerRef, handlerSig, fatal, run, firstOutput,
                   hpc, herr, events>>

\* transformAST, the loop that replaces main; then main() prints the file
SpliceMain ==
    /\ pc = "splice"
    /\ file' = spliceMain(file, handlerRef.QualifiedName, aliases, handlerSig)
    /\ pc' = "done"
    /\ firstOutput' = IF run = 1 THEN file' ELSE firstOutput
    /\ UNCHANGED <<content, pkgInfo, handlerRef, handlerSig, aliases, fatal, run,
                   hpc, herr, events>>

\* the tool is started once more on the same input
Rerun ==
    /\ pc = "done"
    /\ hpc = 0
    /\ run < MaxRuns
    /\ run' = run + 1
    /\ file' = content
    /\ pc' = "find"
    /\ handlerRef' = NilRef
    /\ handlerSig' = NoSig
    /\ aliases' = NoAliases
    /\ UNCHANGED <<content, pkgInfo, fatal, firstOutput, hpc, herr, events>>

(***************************************************************************)
(* The generated adapter at run time: one call of the Handle method        *)
(***************************************************************************)
\* where the adapter stands in the printed file (0 if it is not there)
adapterIndex(decls) ==
    LET m == {i \in 1..(Len(decls) - 2) :
                 /\ decls[i] = createHandlerStruct
                 /\ decls[i + 1] = createNewFunc
                 /\ IsFunc(decls[i + 2]) /\ decls[i + 2].Name = "Handle" /\ decls[i + 2].Recv}
    IN  IF m = {} THEN 0 ELSE Min(m)

HandleStmts == file[adapterIndex(file) + 2].Body

\* the statement forms createHandleMethod emits
isReadBody(st) == st.k = "AssignStmt" /\ st.Lhs = <<"body", "_">>
isEncode(st) ==
    st.k = "ExprStmt" /\ st.X.Fun.k = "SelectorExpr" /\ st.X.Fun.x = "" /\ st.X.Fun.name = "Encode"
isHandlerCall(st) ==
    \/ st.k = "AssignStmt" /\ ~isReadBody(st)
    \/ st.k = "ExprStmt" /\ ~isEncode(st)
bindsErr(st) == st.k = "AssignStmt" /\ \E i \in 1..Len(st.Lhs) : st.Lhs[i] = "err"

\* the arguments of a call, as printed
RECURSIVE argList(_)
argList(args) ==
    IF args = <<>> THEN ""
    ELSE Head(args).name \o (IF Len(args) > 1 THEN ", " ELSE "") \o argList(Tail(args))

\* the effects of the statements of a block, up to and including its return
RECURSIVE blockEvents(_)
blockEvents(stmts) ==
    IF stmts = <<>> THEN <<>>
    ELSE LET st == Head(stmts)
         IN  IF st.k = "ReturnStmt" THEN <<"return">>
             ELSE <<st.X.Fun.x \o "." \o st.X.Fun.name \o "(" \o argList(st.X.Args) \o ")">>
                      \o blockEvents(Tail(stmts))

Running == pc = "done" /\ hpc >= 1 /\ hpc <= Len(HandleStmts)
Returned == pc = "done" /\ hpc > Len(HandleStmts)

\* the function runtime calls Handle for one request
HandleEnter ==
    /\ pc = "done"
    /\ hpc = 0
    /\ adapterIndex(file) # 0
    /\ hpc' = 1
    /\ UNCHANGED <<content, pkgInfo, file, pc, handlerRef, handlerSig, aliases, fatal,
                   run, firstOutput, herr, events>>

\* body, _ := io.ReadAll(r.Body)
ExecReadBody ==
    /\ Running
    /\ isReadBody(HandleStmts[hpc])
    /\ events' = Append(events, "ReadAll")
    /\ hpc' = hpc + 1
    /\ UNCHANGED <<content, pkgInfo, file, pc, handlerRef, handlerSig, aliases, fatal,
                   run, firstOutput, herr>>

\* the call of the migrated handler; the error it returns is nil or not
ExecHandlerCall ==
    /\ Running
    /\ isHandlerCall(HandleStmts[hpc])
    /\ \E e \in (IF bindsErr(HandleStmts[hpc]) THEN {"nil", "err"} ELSE {"unset"}) :
           herr' = e
    /\ events' = Append(events, "call")
    /\ hpc' = hpc + 1
    /\ UNCHANGED <<content, pkgInfo, file, pc, handlerRef, handlerSig, aliases, fatal,
                   run, firstOutput>>

\* if err != nil { ...; return }
ExecErrorGuard ==
    /\ Running
    /\ HandleStmts[hpc].k = "IfStmt"
    /\ IF herr # "nil"
       THEN /\ events' = events \o blockEvents(HandleStmts[hpc].Body)
            /\ hpc' = IF \E i \in 1..Len(HandleStmts[hpc].Body) :
                             HandleStmts[hpc].Body[i].k = "ReturnStmt"
                      THEN Len(HandleStmts) + 1
                      ELSE hpc + 1
       ELSE /\ hpc' = hpc + 1
            /\ UNCHANGED events
    /\ UNCHANGED <<content, pkgInfo, file, pc, handlerRef, handlerSig, aliases, fatal,
                   run, firstOutput, herr>>

\* json.NewEncoder(w).Encode(result)
ExecEncode ==
    /\ Running
    /\ isEncode(HandleStmts[hpc])
    /\ events' = Append(events, "Encode")
    /\ hpc' = hpc + 1
    /\ UNCHANGED <<content, pkgInfo, file, pc, handlerRef, handlerSig, aliases, fatal,
                   run, firstOutput, herr>>

(***************************************************************************)
(* The inputs: parsed files (imports first, as go/parser requires) and the *)
(* answer of the type loader for the package of each                       *)
(***************************************************************************)
LambdaPath == "github.com/aws/aws-lambda-go/lambda"
EventsPath == "github.com/aws/aws-lambda-go/events"
HandlerPath == "github.com/myorg/myapp/pkg/handler"
MainPath == "github.com/myorg/myapp/cmd"

ContextType == SelectorExpr("context", "Context")
RawMessage == SelectorExpr("json", "RawMessage")
ErrorType == Ident("error")

\* the forms an input or an output type is written in
TInForms == {Ident("Event"), Ident("string"), RawMessage, ArrayType("byte"),
             StarExpr("Event"), MapType("string")}
TOutForms == {RawMessage, Ident("string")}

One(t) == <<Field(1, t)>>
Res(t) == <<Field(0, t)>>

\* parameter lists: the canonical ones, then lists outside the rules
ParamLists(ctx) ==
    {<<>>, One(ctx)}
        \cup {One(t) : t \in TInForms}
        \cup {One(ctx) \o One(t) : t \in TOutForms}
        \cup {One(t) \o One(t) : t \in TOutForms}
        \cup {One(ctx) \o One(RawMessage) \o One(RawMessage),
              <<Field(2, Ident("string"))>>,
              One(RawMessage) \o One(ctx)}

\* result lists: the canonical ones, then lists outside the rules
ResultLists ==
    {<<>>, Res(ErrorType)}
        \cup {Res(t) \o Res(ErrorType) : t \in TOutForms}
        \cup {Res(t) : t \in TOutForms}
        \cup {Res(RawMessage) \o Res(Ident("string")),
              Res(RawMessage) \o Res(RawMessage) \o Res(ErrorType),
              <<Field(2, ErrorType)>>}

HandlerDecls(n, ctx) ==
    {FuncDecl(n, FALSE, p, r, TRUE, <<>>) : p \in ParamLists(ctx), r \in ResultLists}

\* import layouts: every sequence of at most MaxImportDecls declarations
ImportDeclChoices ==
    {ImportDecl(<<ImportSpec("", LambdaPath)>>),
     ImportDecl(<<ImportSpec("", EventsPath)>>),
     ImportDecl(<<ImportSpec("", "fmt")>>),
     ImportDecl(<<ImportSpec("", "context"), ImportSpec("", LambdaPath)>>)}

Layouts == UNION {[1..n -> ImportDeclChoices] : n \in 0..MaxImportDecls}

\* the import block of the README's first example, with log
DefaultLayout ==
    <<ImportDecl(<<ImportSpec("", "context"), ImportSpec("", "encoding/json"),
                   ImportSpec("", "log"), ImportSpec("", LambdaPath)>>)>>

\* the same with the context package under an alias
AliasLayout ==
    <<ImportDecl(<<ImportSpec("ctx2", "context"), ImportSpec("", "encoding/json"),
                   ImportSpec("", "log"), ImportSpec("", LambdaPath)>>)>>

\* the import block of a file whose handler lives in package handler
QualifiedLayout ==
    <<ImportDecl(<<ImportSpec("", "context"), ImportSpec("", "encoding/json"),
                   ImportSpec("", "log"), ImportSpec("", LambdaPath),
                   ImportSpec("", HandlerPath)>>)>>

\* encoding/json and log imported under aliases
JsonLogAliasLayout ==
    <<ImportDecl(<<ImportSpec("", "context"), ImportSpec("js", "encoding/json"),
                   ImportSpec("stdlog", "log"), ImportSpec("", LambdaPath)>>)>>

\* all five support modules imported under aliases
FullAliasLayout ==
    <<ImportDecl(<<ImportSpec("ctx2", "context"), ImportSpec("nethttp", "net/http"),
                   ImportSpec("stdio", "io"), ImportSpec("js", "encoding/json"),
                   ImportSpec("stdlog", "log"), ImportSpec("", LambdaPath)>>)>>

StartCall(arg) == ExprStmt(CallExpr(SelectorExpr("lambda", "Start"), <<arg>>))

StmtChoices ==
    {StartCall(Ident("handleRequest")),
     StartCall(Ident("other")),
     StartCall(SelectorExpr("handler", "HandleRequest")),
     StartCall(FuncLit),
     StartCall(CallExpr(Ident("wrap"),
                        <<CallExpr(SelectorExpr("lambda", "Start"), <<Ident("other")>>)>>)),
     ExprStmt(CallExpr(SelectorExpr("fmt", "Println"), <<BasicLit("\"x\"")>>))}

Bodies == UNION {[1..n -> StmtChoices] : n \in 0..MaxStmts}

MainDecl(body) == FuncDecl("main", FALSE, <<>>, <<>>, TRUE, body)

DefaultHandler ==
    FuncDecl("handleRequest", FALSE, One(ContextType) \o One(RawMessage),
             Res(RawMessage) \o Res(ErrorType), TRUE, <<>>)

OtherHandler == FuncDecl("other", FALSE, <<>>, Res(ErrorType), TRUE, <<>>)

\* a handler of package handler, as its own file declares it
ExternHandler ==
    FuncDecl("HandleRequest", FALSE, One(ContextType) \o One(ArrayType("byte")),
             Res(ErrorType), TRUE, <<>>)
ExternSpecs == <<ImportSpec("", "context"), ImportSpec("", "encoding/json")>>

\* a parsed file: imports, a type, the handlers, main, a trailing type
File(layout, handlers, mainDecls) ==
    layout \o <<TypeDecl("Event")>> \o handlers \o mainDecls \o <<TypeDecl("Response")>>

LambdaStartObj ==
    [name |-> "Start", pkg |-> LambdaPath, params |-> <<Named("", "any")>>, results |-> <<>>]

\* the *types.Func objects of the functions a file declares
Objs(decls, pkgPath) ==
    {FuncObj(decls[i], AllSpecs(decls), pkgPath) :
        i \in {j \in 1..Len(decls) : IsFunc(decls[j])}}

\* what packages.Load answers: Load is "ok", "error" (an error is returned) or
\* "none" (no package); Errors counts the diagnostics of pkgs[0]
Info(load, errors, hasTypesInfo, defs, uses) ==
    [Load |-> load, Errors |-> errors, HasTypesInfo |-> hasTypesInfo,
     Defs |-> defs, Uses |-> uses]

Input(decls, siblings, uses) ==
    [Decls |-> decls,
     Info |-> Info("ok", 0, TRUE, Objs(decls, MainPath) \cup siblings,
                   {LambdaStartObj} \cup uses)]

Renamed(fn, n) == [fn EXCEPT !.Name = n]

\* import layouts around a handler that returns an error only
LayoutInputs ==
    {Input(File(l, <<Renamed(OtherHandler, "handleRequest")>>,
                <<MainDecl(<<StartCall(Ident("handleRequest"))>>)>>), {}, {}) :
        l \in Layouts}

\* handler shapes, the handler declared in the file itself
LocalSigInputs ==
    {Input(File(DefaultLayout, <<h>>, <<MainDecl(<<StartCall(Ident("handleRequest"))>>)>>),
           {}, {}) : h \in HandlerDecls("handleRequest", ContextType)}
        \cup
    {Input(File(AliasLayout, <<h>>, <<MainDecl(<<StartCall(Ident("handleRequest"))>>)>>),
           {}, {}) : h \in HandlerDecls("handleRequest", SelectorExpr("ctx2", "Context"))}

\* handler shapes, the handler declared in another file of the package
SiblingSigInputs ==
    {Input(File(DefaultLayout, <<>>, <<MainDecl(<<StartCall(Ident("handleRequest"))>>)>>),
           {FuncObj(h, AllSpecs(DefaultLayout), MainPath)}, {}) :
        h \in HandlerDecls("handleRequest", ContextType)}

\* handler shapes, the handler declared in an imported package
ImportedSigInputs ==
    {Input(File(QualifiedLayout, <<>>,
                <<MainDecl(<<StartCall(SelectorExpr("handler", "HandleRequest"))>>)>>),
           {}, {FuncObj(h, ExternSpecs, HandlerPath)}) :
        h \in HandlerDecls("HandleRequest", ContextType)}

\* bodies of main, in a file with two handlers of its own and an imported one
BodyInputs ==
    {Input(File(QualifiedLayout, <<DefaultHandler, OtherHandler>>, <<MainDecl(b)>>),
           {}, {FuncObj(ExternHandler, ExternSpecs, HandlerPath)}) : b \in Bodies}

\* no main, and a main without a body
EntryInputs ==
    {Input(File(DefaultLayout, <<DefaultHandler>>, <<>>), {}, {}),
     Input(File(DefaultLayout, <<DefaultHandler>>,
                <<FuncDecl("main", FALSE, <<>>, <<>>, FALSE, <<>>)>>), {}, {})}

\* answers of the type loader for a file whose handler is not in the file
LoaderInputs ==
    LET decls == File(QualifiedLayout, <<>>,
                      <<MainDecl(<<StartCall(SelectorExpr("handler", "HandleRequest"))>>)>>)
        obj == FuncObj(ExternHandler, ExternSpecs, HandlerPath)
    IN  {[Decls |-> decls, Info |-> i] :
            i \in {Info("error", 0, FALSE, {}, {}),
                   Info("none", 0, FALSE, {}, {}),
                   Info("ok", 1, FALSE, {}, {}),
                   Info("ok", 1, TRUE, Objs(decls, MainPath), {LambdaStartObj, obj}),
                   Info("ok", 1, TRUE, Objs(decls, MainPath), {LambdaStartObj})}}

\* the handler is handler.HandleRequest, and the file itself declares a method,
\* or a function, of the same name with another signature
ShadowInputs ==
    {Input(File(QualifiedLayout, <<FuncDecl("HandleRequest", recv, <<>>, <<>>, TRUE, <<>>)>>,
                <<MainDecl(<<StartCall(SelectorExpr("handler", "HandleRequest"))>>)>>),
           {}, {FuncObj(ExternHandler, ExternSpecs, HandlerPath)}) : recv \in BOOLEAN}

\* files that import support modules under aliases
AliasInputs ==
    {Input(File(JsonLogAliasLayout,
                <<FuncDecl("handleRequest", FALSE, One(ContextType) \o One(ArrayType("byte")),
                           Res(SelectorExpr("js", "RawMessage")) \o Res(ErrorType), TRUE, <<>>)>>,
                <<MainDecl(<<StartCall(Ident("handleRequest"))>>)>>), {}, {}),
     Input(File(FullAliasLayout,
                <<FuncDecl("handleRequest", FALSE, One(ArrayType("byte")),
                           Res(SelectorExpr("js", "RawMessage")) \o Res(ErrorType), TRUE, <<>>)>>,
                <<MainDecl(<<StartCall(Ident("handleRequest"))>>)>>), {}, {})}

\* files whose own declarations are named like the declarations the tool adds
CollisionInputs ==
    {Input(File(DefaultLayout, <<Renamed(DefaultHandler, n)>>,
                <<MainDecl(<<StartCall(Ident(n))>>)>>), {}, {}) : n \in {"New", "Handler"}}
        \cup
    {Input(File(DefaultLayout, <<TypeDecl("Handler"), DefaultHandler>>,
                <<MainDecl(<<StartCall(Ident("handleRequest"))>>)>>), {}, {})}

OtherPath == "github.com/myorg/myapp/pkg/other"

\* the handler is handler.HandleRequest and the file declares no function of
\* that name, but another file of the package does, or the package also uses
\* a function of that name from another imported package
SameNameInputs ==
    LET decls == File(QualifiedLayout, <<>>,
                      <<MainDecl(<<StartCall(SelectorExpr("handler", "HandleRequest"))>>)>>)
        obj == FuncObj(ExternHandler, ExternSpecs, HandlerPath)
        same(path) == FuncObj(FuncDecl("HandleRequest", FALSE, <<>>, <<>>, TRUE, <<>>),
                              <<>>, path)
    IN  {Input(decls, {same(MainPath)}, {obj}),
         Input(decls, {}, {obj, same(OtherPath)})}

Inputs ==
    LayoutInputs \cup LocalSigInputs \cup SiblingSigInputs \cup ImportedSigInputs
        \cup BodyInputs \cup EntryInputs \cup LoaderInputs
        \cup ShadowInputs \cup AliasInputs \cup CollisionInputs \cup SameNameInputs

(***************************************************************************)
(* Specification                                                           *)
(***************************************************************************)
Init ==
    /\ \E in \in Inputs : content = in.Decls /\ pkgInfo = in.Info
    /\ file = content
    /\ pc = "find"
    /\ handlerRef = NilRef
    /\ handlerSig = NoSig
    /\ aliases = NoAliases
    /\ fatal = ""
    /\ run = 1
    /\ firstOutput = <<>>
    /\ hpc = 0
    /\ herr = "unset"
    /\ events = <<>>

Next ==
    \/ FindLambdaHandler
    \/ AnalyzeHandlerSignature
    \/ AnalyzeHandlerSignatureWithTypes
    \/ AnalyzeWithTypesFails
    \/ RemoveLambdaImport
    \/ AddRequiredImports
    \/ SpliceMain
    \/ Rerun
    \/ HandleEnter
    \/ ExecReadBody
    \/ ExecHandlerCall
    \/ ExecErrorGuard
    \/ ExecEncode

Spec == Init /\ [][Next]_vars

(***************************************************************************)
(* The adapter synthesizer on its own: createHandleMethod applied to every *)
(* HandlerSignature, a bare and a qualified reference, default and aliased *)
(* imports, and the adapter then called                                    *)
(***************************************************************************)
AllSignatures ==
    {HandlerSignature(c, i, o, e) : c \in BOOLEAN, i \in BOOLEAN, o \in BOOLEAN, e \in BOOLEAN}

SynthFile ==
    File(<<ImportDecl(<<ImportSpec("", "context"), ImportSpec("", "net/http"),
                        ImportSpec("", "io"), ImportSpec("", "encoding/json"),
                        ImportSpec("", "log"), ImportSpec("", HandlerPath)>>)>>,
         <<DefaultHandler>>, <<MainDecl(<<>>)>>)

SynthInit ==
    /\ content = SynthFile
    /\ pkgInfo = Info("ok", 0, TRUE, Objs(SynthFile, MainPath), {LambdaStartObj})
    /\ file = content
    /\ pc = "splice"
    /\ handlerRef \in {HandlerReference("handleRequest", "handleRequest"),
                       HandlerReference("HandleRequest", "handler.HandleRequest")}
    /\ handlerSig \in AllSignatures
    /\ aliases \in {[contextAlias |-> "context", httpAlias |-> "http", ioAlias |-> "io"],
                    [contextAlias |-> "ctx2", httpAlias |-> "nethttp", ioAlias |-> "stdio"]}
    /\ fatal = ""
    /\ run = 1
    /\ firstOutput = <<>>
    /\ hpc = 0
    /\ herr = "unset"
    /\ events = <<>>

SynthNext ==
    \/ SpliceMain
    \/ HandleEnter
    \/ ExecReadBody
    \/ ExecHandlerCall
    \/ ExecErrorGuard
    \/ ExecEncode

SynthSpec == SynthInit /\ [][SynthNext]_vars

(***************************************************************************)
(* Claims                                                                  *)
(***************************************************************************)
\* the declared types of a field list, one per declared name
RECURSIVE Flat(_)
Flat(fields) ==
    IF fields = <<>> THEN <<>>
    ELSE LET f == Head(fields)
         IN  [i \in 1..(IF f.names = 0 THEN 1 ELSE f.names) |-> f.type] \o Flat(Tail(fields))

\* the declaration of the handler in the parsed file, when the file has one
LocalHandler == funcsNamed(content, handlerRef.SimpleName) # {}
HandlerDecl == content[Max(funcsNamed(content, handlerRef.SimpleName))]

\* the local classifier has answered for the handler of the file
ClassifiedLocally == pc = "transform" /\ LocalHandler

\* one of the 9 canonical shapes, written with context.Context
Canonical(fn) ==
    LET p == Flat(fn.Params)
        r == Flat(fn.Results)
    IN  /\ \/ Len(p) = 0
           \/ Len(p) = 1
           \/ Len(p) = 2 /\ p[1] = ContextType /\ p[2] # ContextType
        /\ \/ Len(r) = 0 /\ Len(p) = 0
           \/ Len(r) = 1 /\ r[1] = ErrorType
           \/ Len(r) = 2 /\ r[1] # ErrorType /\ r[2] = ErrorType

\* the flags of a shape
ShapeFlags(fn) ==
    LET p == Flat(fn.Params)
        r == Flat(fn.Results)
    IN  HandlerSignature(Len(p) >= 1 /\ p[1] = ContextType,
                         \E i \in 1..Len(p) : p[i] # ContextType,
                         Len(r) = 2,
                         Len(r) >= 1)

\* C1: for a handler declaration of one of the 9 canonical shapes, whatever
\* form its input and output types are written in, analyzeHandlerSignature
\* returns exactly the flags of the shape.
C1_CanonicalShapeFlags ==
    (ClassifiedLocally /\ Canonical(HandlerDecl)) => handlerSig = ShapeFlags(HandlerDecl)

\* the 9 valid flag combinations
ValidSignatures ==
    {sig \in AllSignatures :
        /\ sig.HasOutput => sig.HasError
        /\ (sig.HasContext \/ sig.HasInput) => sig.HasError}

\* parameter and result lists inside the recognized rules; isCtx and isErr
\* are the context type and the error type of the representation at hand
Recognized(params, results, isCtx, isErr) ==
    /\ \/ Len(params) <= 1
       \/ Len(params) = 2 /\ params[1] = isCtx
    /\ \/ Len(results) = 0 /\ Len(params) = 0
       \/ Len(results) = 1 /\ results[1] = isErr
       \/ Len(results) = 2

\* C2: a SignatureModel returned by a classifier is one of the 9 valid flag
\* combinations, and a declaration outside the recognized rules makes the
\* classifier fail instead of returning one.
C2_OnlyValidSignatures ==
    pc = "transform" =>
        /\ handlerSig \in ValidSignatures
        /\ IF LocalHandler
           THEN Recognized(Flat(HandlerDecl.Params), Flat(HandlerDecl.Results),
                           ContextType, ErrorType)
           ELSE \A obj \in handlerObjs(pkgInfo, handlerRef.SimpleName) :
                    typesSignature(obj) = handlerSig
                        => Recognized(obj.params, obj.results,
                                      Named("context", "Context"), Named("", "error"))

\* C3: the local strategy and the cross-module strategy return the same four
\* flags for the same handler declaration (here the declaration of the file,
\* whose function object the package's Defs hold).
C3_StrategiesAgree ==
    ClassifiedLocally =>
        \A obj \in handlerObjs(pkgInfo, handlerRef.SimpleName) :
            typesSignature(obj) = handlerSig

ImportRewritten == pc \in {"splice", "done"}

\* C4: after import rewriting no import spec has a path that contains
\* aws-lambda-go, and no import declaration without specs remains.
C4_NoLambdaImportLeft ==
    ImportRewritten =>
        /\ \A i \in 1..Len(AllSpecs(file)) : ~Contains(AllSpecs(file)[i].Path, LambdaMarker)
        /\ \A i \in 1..Len(file) : IsImport(file[i]) => Len(file[i].Specs) > 0

\* C5: transforming the same input twice yields the same declaration list,
\* the added import specs in the same order included.
C5_SinglePassDeterminism ==
    (run = 2 /\ pc = "done") => file = firstOutput

\* the reference of the first start call, in source order, whose argument is
\* a bare identifier or a package.Identifier selector
RECURSIVE firstExpr(_, _)
RECURSIVE firstList(_, _)
firstExpr(e, ref) ==
    IF ~ref.isNil \/ e.k # "CallExpr" THEN ref
    ELSE IF isLambdaStart(e) /\ Len(e.Args) > 0 /\ isHandlerArg(e.Args[1])
    THEN refOfArg(e.Args[1])
    ELSE firstList(e.Args, ref)

firstList(es, ref) ==
    IF es = <<>> THEN ref ELSE firstList(Tail(es), firstExpr(Head(es), ref))

RECURSIVE firstStmts(_, _)
firstStmts(stmts, ref) ==
    IF stmts = <<>> THEN ref
    ELSE firstStmts(Tail(stmts), firstExpr(Head(stmts).X, ref))

MainBody == content[Min(funcsNamed(content, "main"))].Body

\* C6: with more than one start call in main, the HandlerReference returned
\* is the one of the first such call in source order.
C6_FirstStartCallWins ==
    pc = "analyze" => handlerRef = firstStmts(MainBody, NilRef)

Bit(b) == IF b THEN 1 ELSE 0
Has(seq, x) == \E i \in 1..Len(seq) : seq[i] = x
Count(seq, x) == Cardinality({i \in 1..Len(seq) : seq[i] = x})
Pos(seq, x) == Min({i \in 1..Len(seq) : seq[i] = x})

AdapterPrinted == pc = "done" /\ adapterIndex(file) # 0
Qualified == handlerRef.QualifiedName # handlerRef.SimpleName

\* C7: the body of the synthesized Handle method is the body read iff
\* HasInput, then exactly one call of the handler (arguments ctx iff
\* HasContext, then body iff HasInput; callee pkg.F for a qualified reference,
\* the bare identifier otherwise; results bound according to HasOutput and
\* HasError), then the error guard iff HasError, then the JSON encode of
\* result iff HasOutput; for func() it is the bare call alone.
C7_HandleBodyShape ==
    AdapterPrinted =>
        LET b == HandleStmts
            sig == handlerSig
            ci == Bit(sig.HasInput) + 1
            call == b[ci].X
        IN  /\ Len(b) = Bit(sig.HasInput) + 1 + Bit(sig.HasError) + Bit(sig.HasOutput)
            /\ sig.HasInput =>
                   /\ b[1].k = "AssignStmt" /\ b[1].Lhs = <<"body", "_">>
                   /\ b[1].X.Fun.name = "ReadAll"
                   /\ b[1].X.Args = <<SelectorExpr("r", "Body")>>
            /\ Cardinality({i \in 1..Len(b) : isReadBody(b[i])}) = Bit(sig.HasInput)
            /\ Cardinality({i \in 1..Len(b) : isHandlerCall(b[i])}) = 1
            /\ isHandlerCall(b[ci])
            /\ Len(call.Args) = Bit(sig.HasContext) + Bit(sig.HasInput)
            /\ sig.HasContext => call.Args[1] = Ident("ctx")
            /\ sig.HasInput => call.Args[Len(call.Args)] = Ident("body")
            /\ IF Qualified
               THEN /\ call.Fun.k = "SelectorExpr"
                    /\ call.Fun.x \o "." \o call.Fun.name = handlerRef.QualifiedName
                    /\ call.Fun.name = handlerRef.SimpleName
               ELSE call.Fun = Ident(handlerRef.SimpleName)
            /\ CASE sig.HasOutput /\ sig.HasError ->
                        b[ci].k = "AssignStmt" /\ b[ci].Lhs = <<"result", "err">>
                 [] ~sig.HasOutput /\ sig.HasError ->
                        b[ci].k = "AssignStmt" /\ b[ci].Lhs = <<"err">>
                 [] sig.HasOutput /\ ~sig.HasError ->
                        b[ci].k = "AssignStmt" /\ b[ci].Lhs = <<"result">>
                 [] OTHER -> b[ci].k = "ExprStmt"
            /\ Cardinality({i \in 1..Len(b) : b[i].k = "IfStmt"}) = Bit(sig.HasError)
            /\ sig.HasError =>
                   /\ b[ci + 1].k = "IfStmt"
                   /\ b[ci + 1].Cond = <<"err", "!=", "nil">>
            /\ Cardinality({i \in 1..Len(b) : isEncode(b[i])}) = Bit(sig.HasOutput)
            /\ sig.HasOutput =>
                   /\ isEncode(b[Len(b)])
                   /\ b[Len(b)].X.Args = <<Ident("result")>>
            /\ sig = NoSig => b = <<ExprStmt(CallExpr(call.Fun, <<>>))>>

\* a (ctx, in) -> (out, error) handler of another package: read, qualified
\* call with both arguments and both bindings, guard, encode
C7_Witness ==
    /\ AdapterPrinted
    /\ handlerSig = HandlerSignature(TRUE, TRUE, TRUE, TRUE)
    /\ Qualified
    /\ Len(HandleStmts) = 4

LogEvent == "log.Printf(\"Handler error: %v\", err)"
StatusEvent == "w.WriteHeader(500)"

\* C8: in the adapter generated for a signature with HasError, a call in
\* which the handler returns a non-nil error logs the error, writes status
\* 500 and returns, in that order, and never encodes; a call in which it
\* returns nil writes no 500 and, with HasOutput, encodes the result exactly
\* once, after the handler call.
C8_ErrorGuardBehaviour ==
    (AdapterPrinted /\ handlerSig.HasError) =>
        /\ herr = "err" => ~Has(events, "Encode")
        /\ (Returned /\ herr = "err") =>
               /\ Len(events) >= 4
               /\ SubSeq(events, Len(events) - 3, Len(events))
                      = <<"call", LogEvent, StatusEvent, "return">>
               /\ Count(events, "call") = 1
        /\ herr = "nil" => (~Has(events, StatusEvent) /\ ~Has(events, LogEvent))
        /\ (Returned /\ herr = "nil" /\ handlerSig.HasOutput) =>
               /\ Count(events, "Encode") = 1
               /\ Count(events, "call") = 1
               /\ Pos(events, "call") < Pos(events, "Encode")
        /\ (Returned /\ herr = "nil" /\ ~handlerSig.HasOutput) => ~Has(events, "Encode")

\* the handler of an (out, error) adapter has failed and Handle has returned
C8_Witness ==
    /\ AdapterPrinted
    /\ handlerSig.HasError /\ handlerSig.HasOutput
    /\ Returned
    /\ herr = "err"
    /\ Has(events, StatusEvent)

NonImports(decls) == LET Keep(d) == ~IsImport(d) IN SelectSeq(decls, Keep)

IsHandlerType(d) == d.k = "GenDecl" /\ d.Tok = "type" /\ d.Name = "Handler"
IsNewFunc(d) == IsFunc(d) /\ d.Name = "New" /\ ~d.Recv
IsHandleMethod(d) == IsFunc(d) /\ d.Name = "Handle" /\ d.Recv

\* C9: the splice replaces the single main declaration, at the index it has
\* after import rewriting, by exactly the Handler type, the New constructor
\* and the Handle method, in that order; every other non-import declaration
\* of the input is still there once, unchanged and in the same order, and no
\* declaration named main remains.
C9_SpliceFrame ==
    [][(pc = "splice" /\ pc' = "done" /\ Cardinality(funcsNamed(content, "main")) = 1) =>
          LET i == Min(funcsNamed(file, "main"))
              ni == NonImports(content)
              j == Min(funcsNamed(ni, "main"))
          IN  /\ funcsNamed(file, "main") # {}
              /\ Len(file') = Len(file) + 2
              /\ \A n \in 1..(i - 1) : file'[n] = file[n]
              /\ IsHandlerType(file'[i])
              /\ IsNewFunc(file'[i + 1])
              /\ IsHandleMethod(file'[i + 2])
              /\ \A n \in (i + 1)..Len(file) : file'[n + 2] = file[n]
              /\ NonImports(file') = SubSeq(ni, 1, j - 1)
                                         \o <<file'[i], file'[i + 1], file'[i + 2]>>
                                         \o SubSeq(ni, j + 1, Len(ni))
              /\ funcsNamed(file', "main") = {}]_vars

\* a first run has spliced the adapter between the handler's own
\* declaration, still in the file, and a declaration that followed main
C9_Witness ==
    /\ AdapterPrinted
    /\ run = 1
    /\ adapterIndex(file) > 2
    /\ adapterIndex(file) + 2 < Len(file)
    /\ LocalHandler
    /\ Has(file, HandlerDecl)
    /\ file[Len(file)] = content[Len(content)]

RECURSIVE hasStartCall(_)
hasStartCall(es) ==
    IF es = <<>> THEN FALSE
    ELSE LET e == Head(es)
         IN  \/ e.k = "CallExpr" /\ (isLambdaStart(e) \/ hasStartCall(e.Args))
             \/ hasStartCall(Tail(es))

\* main is there, with a body that holds no lambda.Start call at any depth
NoStartCall ==
    /\ funcsNamed(content, "main") # {}
    /\ \A i \in funcsNamed(content, "main") :
           /\ content[i].HasBody
           /\ ~hasStartCall([n \in 1..Len(content[i].Body) |-> content[i].Body[n].X])

StartCallNotFound ==
    "Failed to find lambda handler: lambda.Start() call not found in main function"

\* the locator and a classifier have succeeded on the parsed file
LocatedAndClassified ==
    /\ ~handlerRef.isNil
    /\ fatal = ""
    /\ \/ analyzeHandlerSignature(content, handlerRef.SimpleName).ok
       \/ pkgInfo.Load = "ok" /\ handlerObjs(pkgInfo, handlerRef.SimpleName) # {}

BodylessMain ==
    \E i \in funcsNamed(content, "main") : ~content[i].HasBody

NoMain == funcsNamed(content, "main") = {}

EntryNotFound == "Failed to find lambda handler: main function not found"

\* C11: when main is declared without a body the locator ends with the
\* start-call-not-found error (an error value, not a crash), and when there
\* is no function named main it ends with the entry-not-found error.
C11_EntryErrors ==
    pc # "find" =>
        /\ BodylessMain => (pc = "fatal" /\ fatal = StartCallNotFound)
        /\ NoMain => (pc = "fatal" /\ fatal = EntryNotFound)

\* a lambda.Start call, at any depth, whose argument is neither a bare
\* identifier nor a package.Identifier selector
RECURSIVE hasUnsupportedStart(_)
hasUnsupportedStart(es) ==
    IF es = <<>> THEN FALSE
    ELSE LET e == Head(es)
         IN  \/ /\ e.k = "CallExpr"
                /\ \/ isLambdaStart(e) /\ (Len(e.Args) = 0 \/ ~isHandlerArg(e.Args[1]))
                   \/ hasUnsupportedStart(e.Args)
             \/ hasUnsupportedStart(Tail(es))

UnsupportedStart ==
    /\ ~NoMain
    /\ ~BodylessMain
    /\ hasUnsupportedStart([n \in 1..Len(MainBody) |-> MainBody[n].X])

\* C12: when main holds a lambda.Start call with an unsupported argument
\* (function literal, call expression, literal, selector on a non-identifier)
\* the locator fails, with an error that is not the start-call-not-found
\* error, and no handler is taken from another or a nested start call.
C12_UnsupportedHandlerExpression ==
    (UnsupportedStart /\ pc # "find") =>
        /\ pc = "fatal"
        /\ handlerRef.isNil
        /\ fatal # StartCallNotFound
        /\ fatal # EntryNotFound

\* the import path the package prefix of a qualified reference stands for
DeclaringPkg ==
    PathOf(AllSpecs(content),
           SubSeq(handlerRef.QualifiedName, 1, Index(handlerRef.QualifiedName, ".")))

\* the function objects of that name in the package that declares the handler
ImportedObjs ==
    {o \in pkgInfo.Uses : o.name = handlerRef.SimpleName /\ o.pkg = DeclaringPkg}

\* C13: a handler referenced as pkg.Handle gets the signature the type
\* information of its declaring package gives, whatever the input file
\* declares under the same name, and the generated call is pkg.Handle(...).
C13_QualifiedHandlerByTypes ==
    Qualified =>
        /\ pc = "transform" => \E o \in ImportedObjs : handlerSig = typesSignature(o)
        /\ AdapterPrinted =>
               \E i \in 1..Len(HandleStmts) :
                   /\ isHandlerCall(HandleStmts[i])
                   /\ HandleStmts[i].X.Fun
                          = SelectorExpr(SubSeq(handlerRef.QualifiedName, 1,
                                                Index(handlerRef.QualifiedName, ".")),
                                         handlerRef.SimpleName)

\* the name under which the parsed file refers to a support module: its alias
\* when the file imports the module under one, the default name otherwise
UsedName(path) ==
    LET specs == AllSpecs(content)
        m == {i \in 1..Len(specs) : Trim(specs[i].Path, "\"") = path /\ specs[i].Name # ""}
    IN  IF m = {} THEN defaultAlias(path) ELSE specs[Min(m)].Name

HandleMethod == file[adapterIndex(file) + 2]

\* C14: every reference of the synthesized Handle method to one of the five
\* support modules uses the alias under which the input file imports it
\* (parameter types: context and net/http; body read: io; encoder:
\* encoding/json; error log: log), the default name otherwise.
C14_AliasesReused ==
    AdapterPrinted =>
        /\ HandleMethod.Params[1].type.x = UsedName("context")
        /\ HandleMethod.Params[2].type.x = UsedName("net/http")
        /\ HandleMethod.Params[3].type.x = UsedName("net/http")
        /\ \A i \in 1..Len(HandleStmts) :
               LET st == HandleStmts[i]
               IN  /\ isReadBody(st) => st.X.Fun.x = UsedName("io")
                   /\ isEncode(st) => st.X.Fun.X.Fun.x = UsedName("encoding/json")
                   /\ st.k = "IfStmt" => st.Body[1].X.Fun.x = UsedName("log")

\* the import paths of a declaration list, in source order
PathSeq(decls) ==
    LET specs == AllSpecs(decls)
    IN  [i \in 1..Len(specs) |-> Trim(specs[i].Path, "\"")]

\* how many import specs of a declaration list have the path
PathCount(decls, path) == Count(PathSeq(decls), path)

\* the support modules the SignatureModel requires
Required(path) ==
    \/ path \in {"context", "net/http"}
    \/ path = "io" /\ handlerSig.HasInput
    \/ path = "encoding/json" /\ handlerSig.HasOutput
    \/ path = "log" /\ handlerSig.HasError

AddStep == pc = "imports" /\ pc' = "splice"

\* C15: addRequiredImports adds one import spec for a support module iff the
\* module is required by the SignatureModel and not yet imported: afterwards
\* every required module is imported, a module that was present has gained
\* no spec, and nothing else has been added or taken away.
C15_AddsExactlyMissing ==
    [][AddStep =>
          \A before \in {AllSpecs(file)}, after \in {AllSpecs(file')},
             bp \in {PathSeq(file)}, ap \in {PathSeq(file')} :
              /\ \A p \in SupportPaths :
                     /\ Count(ap, p) = Count(bp, p) + Bit(Required(p) /\ ~Has(bp, p))
                     /\ Required(p) => Has(ap, p)
              /\ Len(ap) = Len(bp) + Cardinality({p \in SupportPaths :
                                                      Required(p) /\ ~Has(bp, p)})
              /\ \A i \in 1..Len(before) : Has(after, before[i])]_vars

\* net/http has been added next to a context import that was there, and io,
\* which the signature does not require, has not
C15_Witness ==
    /\ pc = "splice"
    /\ PathCount(content, "context") = 1
    /\ PathCount(file, "context") = 1
    /\ PathCount(content, "net/http") = 0
    /\ PathCount(file, "net/http") = 1
    /\ ~handlerSig.HasInput
    /\ PathCount(file, "io") = 0

\* the handler symbol is among the package's definitions or its imported uses
Resolves ==
    \E o \in pkgInfo.Defs \cup pkgInfo.Uses : o.name = handlerRef.SimpleName

HandlerNotFound ==
    "Failed to analyze handler signature: handler function "
        \o handlerRef.SimpleName \o " not found in package or imports"

\* C16: the cross-module strategy is tried only after the local strategy has
\* not found the handler in the parsed file; with a loaded package it
\* succeeds whenever the handler symbol resolves among the definitions or
\* the uses, diagnostics of the loader or not; when the symbol resolves in
\* neither, the run ends with the handler-not-found error, and the file is
\* as parsed then and ever after.
C16_CrossModuleFallback ==
    [][/\ pc' = "types" =>
              (pc = "analyze" /\ funcsNamed(file, handlerRef.SimpleName) = {})
       /\ (pc = "types" /\ pkgInfo.Load = "ok" /\ Resolves) =>
              (pc' = "transform" /\ fatal' = "")
       /\ (pc = "types" /\ pkgInfo.Load = "ok" /\ ~Resolves) =>
              (pc' = "fatal" /\ fatal' = HandlerNotFound /\ file' = content)
       /\ pc = "fatal" => (pc' = "fatal" /\ file' = file)]_vars

\* the loader has reported a diagnostic and the handler of the imported
\* package has been classified all the same
C16_Witness ==
    /\ pc = "transform"
    /\ pkgInfo.Errors > 0
    /\ ~LocalHandler
    /\ Resolves
    /\ handlerSig = HandlerSignature(TRUE, TRUE, FALSE, TRUE)

(***************************************************************************)
(* transformAST on its own: the function applied to parsed files with and  *)
(* without a declaration named main, for every HandlerSignature            *)
(***************************************************************************)
TransformFiles ==
    {File(l, <<DefaultHandler>>, m) :
        l \in {DefaultLayout, <<>>, <<ImportDecl(<<ImportSpec("", LambdaPath)>>)>>},
        m \in {<<>>, <<MainDecl(<<StartCall(Ident("handleRequest"))>>)>>}}

TransformInit ==
    /\ content \in TransformFiles
    /\ pkgInfo = Info("ok", 0, TRUE, Objs(content, MainPath), {LambdaStartObj})
    /\ file = content
    /\ pc = "transform"
    /\ handlerRef = HandlerReference("handleRequest", "handleRequest")
    /\ handlerSig \in AllSignatures
    /\ aliases = NoAliases
    /\ fatal = ""
    /\ run = 1
    /\ firstOutput = <<>>
    /\ hpc = 0
    /\ herr = "unset"
    /\ events = <<>>

TransformNext ==
    \/ RemoveLambdaImport
    \/ AddRequiredImports
    \/ SpliceMain

TransformSpec == TransformInit /\ [][TransformNext]_vars

ResultRule(results, errType, sig) ==
    /\ Len(results) = 0 => (~sig.HasOutput /\ ~sig.HasError)
    /\ (Len(results) = 1 /\ results[1] = errType) => (sig.HasError /\ ~sig.HasOutput)
    /\ Len(results) = 2 => (sig.HasOutput /\ sig.HasError)

\* C18: both classifiers classify the results by their number alone, but for
\* the single result: none gives neither flag, a single error gives HasError
\* only, two results give HasOutput and HasError whatever the second is.
C18_ResultClassification ==
    pc = "transform" =>
        IF LocalHandler
        THEN ResultRule(Flat(HandlerDecl.Results), ErrorType, handlerSig)
        ELSE \A obj \in handlerObjs(pkgInfo, handlerRef.SimpleName) :
                 typesSignature(obj) = handlerSig
                     => ResultRule(obj.results, Named("", "error"), handlerSig)

\* the paths of a sequence of import specs
SpecPaths(specs) == {Trim(specs[i].Path, "\"") : i \in 1..Len(specs)}

ImportIndexes(decls) == {i \in 1..Len(decls) : IsImport(decls[i])}

\* C19: when a required module is missing after the removal of the
\* aws-lambda-go import, the missing imports are appended to the first import
\* declaration that is left, after its specs, and no declaration is created;
\* when no import declaration is left, one new import declaration holding
\* the required modules is inserted at index 0; when nothing is missing the
\* declaration list is unchanged.
C19_WhereImportsGo ==
    [][AddStep =>
          \A bp \in {PathSeq(file)}, imps \in {ImportIndexes(file)} :
          \A missing \in {{p \in SupportPaths : Required(p) /\ ~Has(bp, p)}} :
              IF missing = {} THEN file' = file
              ELSE IF imps # {}
              THEN \A first \in {Min(imps)} :
                   \A old \in {file[first].Specs}, new \in {file'[first].Specs} :
                       /\ Len(file') = Len(file)
                       /\ \A n \in 1..Len(file) : n # first => file'[n] = file[n]
                       /\ IsImport(file'[first])
                       /\ Len(new) = Len(old) + Cardinality(missing)
                       /\ SubSeq(new, 1, Len(old)) = old
                       /\ SpecPaths(SubSeq(new, Len(old) + 1, Len(new))) = missing
              ELSE /\ Len(file') = Len(file) + 1
                   /\ SubSeq(file', 2, Len(file')) = file
                   /\ IsImport(file'[1])
                   /\ SpecPaths(file'[1].Specs) = {p \in SupportPaths : Required(p)}
                   /\ Len(file'[1].Specs)
                          = Cardinality({p \in SupportPaths : Required(p)})]_vars

\* the removal has deleted the only import block of the file, and a new
\* block stands at index 0
C19_Witness ==
    /\ pc = "splice"
    /\ Cardinality(ImportIndexes(content)) = 1
    /\ SpecPaths(AllSpecs(content)) = {LambdaPath}
    /\ ImportIndexes(file) = {1}
    /\ Len(file) = Len(content)
    /\ PathCount(file, "net/http") = 1
    /\ PathCount(file, LambdaPath) = 0

\* the names the declarations of a file bind at package level (methods bind
\* none)
TopLevelNames(decls) ==
    {i \in 1..Len(decls) :
        \/ decls[i].k = "GenDecl" /\ decls[i].Tok = "type"
        \/ IsFunc(decls[i]) /\ ~decls[i].Recv}

\* C20: after a successful transform no two top-level declarations of the
\* output share a name: the added type Handler and function New collide with
\* no declaration of the input, the migrated handler included.
C20_NoDuplicateNames ==
    pc = "done" =>
        \A i, j \in TopLevelNames(file) : file[i].Name = file[j].Name => i = j

Classified == pc \in {"transform", "imports", "splice", "done"}

\* C21: every SignatureModel a classifier returns has HasOutput only with
\* HasError, so no generated Handle method binds `result := handler(...)`
\* alone, and every JSON-encode statement comes right after an error guard.
C21_OutputImpliesError ==
    /\ Classified => (handlerSig.HasOutput => handlerSig.HasError)
    /\ AdapterPrinted =>
           \A i \in 1..Len(HandleStmts) :
               /\ ~(HandleStmts[i].k = "AssignStmt" /\ HandleStmts[i].Lhs = <<"result">>)
               /\ isEncode(HandleStmts[i]) => (i > 1 /\ HandleStmts[i - 1].k = "IfStmt")

\* an adapter with an encode statement has been printed for a handler that
\* a classifier has found to return an output
C21_Witness ==
    /\ AdapterPrinted
    /\ handlerSig.HasOutput
    /\ isEncode(HandleStmts[Len(HandleStmts)])
    /\ HandleStmts[Len(HandleStmts) - 1].k = "IfStmt"

\* C22: when the cross-module strategy runs for a reference pkg.F, the
\* signature it returns is the one of the function F of package pkg,
\* whatever the order in which the definitions and the uses are ranged over,
\* and not the one of another function that has the simple name F.
C22_ObjectOfNamedPackage ==
    (pc = "transform" /\ Qualified /\ ~LocalHandler) =>
        handlerSig \in {typesSignature(o) : o \in ImportedObjs}

====
